---- MODULE Spec2Model ----
(***************************************************************************)
(* Fan-out / fan-in in the two demonstration servers of PythonConcurrency. *)
(*                                                                         *)
(*   threaded variant  src/bruno_concurrent_http_server/server.py          *)
(*       ThreadingSimpleServer runs do_GET in one handler thread per       *)
(*       inbound request; process_req starts one thread per field of the   *)
(*       last path segment; perform_request appends to a results list;     *)
(*       do_GET joins the threads and writes the elapsed time.             *)
(*   asyncio variant   src/server.py                                       *)
(*       get_delays runs main(urls) under asyncio.run; main awaits         *)
(*       asyncio.gather over one get(url) coroutine per url.               *)
(*                                                                         *)
(* Time is discrete.  A step of the program takes no time; the clock       *)
(* advances only while some unit waits on the network and no step of the   *)
(* program is enabled.  The upstream service is a black box: the delay of  *)
(* each call and whether it fails are chosen nondeterministically.         *)
(***************************************************************************)
EXTENDS Integers, Sequences, FiniteSets, TLC

VARIABLES
    variant,    \* which of the two programs is running
    now,        \* the wall clock
    \* ---- threaded variant
    results,    \* the list object bound to process_req's default argument
    nreq,       \* number of inbound requests accepted so far
    hpc,        \* hpc[r]: position of the handler thread of request r in do_GET
    req,        \* req[r]: the RequestPath parse_path returned
    t0,         \* t0[r]: do_GET's t0
    reqs,       \* reqs[r]: the threads process_req has started, in order
    joined,     \* joined[r]: how many of reqs[r] the join loop has passed
    elapsed,    \* elapsed[r]: the value written by do_GET
    \* ---- asyncio variant
    apc,        \* position of get_delays
    served,     \* number of /delay-me requests started so far
    urls,       \* the argument of main
    start,      \* get_delays' start
    tasks,      \* the tasks gather made of the get(url) coroutines
    gather,     \* state of the future main awaits
    suspended,  \* whether main has yielded to the event loop in this run
    delayOut    \* the delay get_delays reports

tvars == << results, nreq, hpc, req, t0, reqs, joined, elapsed >>
avars == << apc, served, urls, start, tasks, gather, suspended, delayOut >>
vars == << variant, now, results, nreq, hpc, req, t0, reqs, joined, elapsed,
           apc, served, urls, start, tasks, gather, suspended, delayOut >>

(***************************************************************************)
(* Bounds                                                                  *)
(***************************************************************************)
MaxRequests == 2    \* inbound requests per run of either server
MaxArgLen == 1      \* characters in the last path segment of a request
MaxDelay == 2       \* longest upstream delay, in clock ticks
MaxUrls == 2        \* longest url list handed to main

\* the value of a variable the program has not assigned yet
None == 0 - 1

Max(S) == IF S = {} THEN 0 ELSE CHOOSE m \in S : \A x \in S : x <= m

SeqsUpTo(S, n) == UNION { [1..k -> S] : k \in 0..n }

(***************************************************************************)
(* Request paths.  A path is a sequence of tokens; "secs" stands for the   *)
(* four letters, every other token is one character.                       *)
(***************************************************************************)
ArgChars == { "1", "," }
SecsPath == << "/", "secs", "/" >>
RootPath == << "/" >>
Paths == { SecsPath \o a : a \in SeqsUpTo(ArgChars, MaxArgLen) } \cup { RootPath }

\* str.split(sep): the fields between occurrences of sep; never an empty list
RECURSIVE Split(_, _)
Split(s, sep) ==
    IF \A k \in 1..Len(s) : s[k] # sep
    THEN << s >>
    ELSE LET k == CHOOSE i \in 1..Len(s) :
                      s[i] = sep /\ \A j \in 1..(i - 1) : s[j] # sep
         IN  << SubSeq(s, 1, k - 1) >> \o Split(SubSeq(s, k + 1, Len(s)), sep)

\* sub in s
Contains(s, sub) ==
    \E k \in 0..(Len(s) - Len(sub)) : SubSeq(s, k + 1, k + Len(sub)) = sub

RequestPath(path, args) == [ path |-> path, args |-> args ]

parse_path(path) ==
    LET parts == Split(path, "/")
    IN  IF Contains(path, SecsPath)
        THEN RequestPath(SecsPath, parts[Len(parts)])
        ELSE RequestPath(path, << >>)

\* a fan-out that forgets to split: the whole segment is one target
secs_listUnsplit(r) == << req[r].args >>

\* process_req's secs_list
secs_list(r) == Split(req[r].args, ",")

Url(secs) == << "http://httpbin.org/delay/" >> \o secs

(***************************************************************************)
(* Units of work                                                           *)
(***************************************************************************)
Terminal == { "Succeeded", "Failed", "Cancelled" }

\* a join that returns without waiting for the thread
ThreadTerminatedNoWait(u) == TRUE

\* Thread.join returns once the thread's target has returned or raised
ThreadTerminated(u) == u.st \in Terminal

\* an append that is not atomic: the slot is computed from a stale length
\* and the entry written last by another thread is overwritten
ListAppendLossy(l, e) == IF Len(l) = 0 THEN << e >> ELSE [l EXCEPT ![Len(l)] = e]

\* an append onto a list made afresh: what was collected before is gone
ListAppendFresh(l, e) == << e >>

\* results.insert(0, e): the newest entry first
ListPrepend(l, e) == << e >> \o l

\* list.append: one atomic step of the interpreter
ListAppend(l, e) == Append(l, e)

\* what perform_request appends for unit i of request r: the decoded body,
\* tagged here with the unit that fetched it
Payload(r, i) == << r, i >>

\* a fan-out that joins each thread before it starts the next one
CanLaunchSequential(r) == \A i \in 1..Len(reqs[r]) : reqs[r][i].st \in Terminal

\* thread.start() returns at once: the next thread is started without
\* waiting for the earlier ones
CanLaunch(r) == TRUE

Reqs == 1..MaxRequests

\* seq: the rank of the unit's append among all appends of the process
Unit(u, d) == [ url |-> u, st |-> "get", delay |-> d, due |-> now + d, seq |-> None ]

\* number of appends that have happened so far
Appends ==
    Cardinality({ << r, i >> \in Reqs \X (1..(MaxArgLen + 1)) :
                    i \in 1..Len(reqs[r]) /\ reqs[r][i].st = "Succeeded" })

(***************************************************************************)
(* Threaded variant                                                        *)
(***************************************************************************)
\* do_GET, lines 23-26, in a handler thread of its own
Accept(path) ==
    /\ variant = "threaded"
    /\ nreq < MaxRequests
    /\ LET r == nreq + 1
           q == parse_path(path)
       IN  /\ nreq' = r
           /\ req' = [req EXCEPT ![r] = q]
           /\ t0' = [t0 EXCEPT ![r] = now]
           /\ hpc' = [hpc EXCEPT ![r] = IF q.path = SecsPath THEN "launch" ELSE "respond"]
    /\ UNCHANGED << variant, now, results, reqs, joined, elapsed, avars >>

\* one iteration of process_req's comprehension: launch_request_thread
Launch(r) ==
    /\ variant = "threaded"
    /\ hpc[r] = "launch"
    /\ CanLaunch(r)
    /\ \E d \in 0..MaxDelay :
         LET i == Len(reqs[r]) + 1
             ts == Append(reqs[r], Unit(Url(secs_list(r)[i]), d))
         IN  /\ reqs' = [reqs EXCEPT ![r] = ts]
             /\ hpc' = [hpc EXCEPT ![r] =
                          IF Len(ts) = Len(secs_list(r)) THEN "join" ELSE "launch"]
    /\ UNCHANGED << variant, now, results, nreq, req, t0, joined, elapsed, avars >>

\* perform_request run by thread i of request r, once the upstream has
\* answered: the body decodes and is appended to results
PerformRequest(r, i) ==
    /\ variant = "threaded"
    /\ i \in 1..Len(reqs[r])
    /\ reqs[r][i].st = "get"
    /\ now >= reqs[r][i].due
    /\ results' = ListAppend(results, Payload(r, i))
    /\ reqs' = [reqs EXCEPT ![r][i].st = "Succeeded", ![r][i].seq = Appends + 1]
    /\ UNCHANGED << variant, now, nreq, hpc, req, t0, joined, elapsed, avars >>

\* perform_request, line 62: requests.get raises; the thread ends
FetchRaise(r, i) ==
    /\ variant = "threaded"
    /\ i \in 1..Len(reqs[r])
    /\ reqs[r][i].st = "get"
    /\ now >= reqs[r][i].due
    /\ reqs' = [reqs EXCEPT ![r][i].st = "Failed"]
    /\ UNCHANGED << variant, now, results, nreq, hpc, req, t0, joined, elapsed, avars >>

\* a perform_request that appends the raw response before it decodes it
DecodeRaiseAfterAppend(r, i) ==
    /\ variant = "threaded"
    /\ i \in 1..Len(reqs[r])
    /\ reqs[r][i].st = "get"
    /\ now >= reqs[r][i].due
    /\ results' = ListAppend(results, Payload(r, i))
    /\ reqs' = [reqs EXCEPT ![r][i].st = "Failed"]
    /\ UNCHANGED << variant, now, nreq, hpc, req, t0, joined, elapsed, avars >>

\* perform_request, line 63: json.loads raises; nothing is appended, the
\* thread ends
DecodeRaise(r, i) ==
    /\ variant = "threaded"
    /\ i \in 1..Len(reqs[r])
    /\ reqs[r][i].st = "get"
    /\ now >= reqs[r][i].due
    /\ reqs' = [reqs EXCEPT ![r][i].st = "Failed"]
    /\ UNCHANGED << variant, now, results, nreq, hpc, req, t0, joined, elapsed, avars >>

\* do_GET, lines 30-31: one iteration of the join loop
Join(r) ==
    /\ variant = "threaded"
    /\ hpc[r] = "join"
    /\ ThreadTerminated(reqs[r][joined[r] + 1])
    /\ joined' = [joined EXCEPT ![r] = joined[r] + 1]
    /\ hpc' = [hpc EXCEPT ![r] =
                 IF joined[r] + 1 = Len(reqs[r]) THEN "respond" ELSE "join"]
    /\ UNCHANGED << variant, now, results, nreq, req, t0, reqs, elapsed, avars >>

get_elapsed(t) == now - t

\* do_GET, lines 33-36
Respond(r) ==
    /\ variant = "threaded"
    /\ hpc[r] = "respond"
    /\ elapsed' = [elapsed EXCEPT ![r] = get_elapsed(t0[r])]
    /\ hpc' = [hpc EXCEPT ![r] = "done"]
    /\ UNCHANGED << variant, now, results, nreq, req, t0, reqs, joined, avars >>

(***************************************************************************)
(* Asyncio variant                                                         *)
(***************************************************************************)
UrlSet == { "http://httpbin.org/delay/5", "http://httpbin.org/delay/3" }
DELAY_URLS == << "http://httpbin.org/delay/5", "http://httpbin.org/delay/3" >>
UrlLists == SeqsUpTo(UrlSet, MaxUrls) \cup { DELAY_URLS }

Task(u) == [ url |-> u, st |-> "scheduled", delay |-> None, due |-> None,
             session |-> "none" ]

\* a get that makes its ClientSession without a context manager and never
\* closes it
ExitSessionLeak(t) == t

\* get, line 30: leaving the async with block closes the session, however
\* the block is left (return, exception, cancellation)
ExitSession(t) == [t EXCEPT !.session = IF @ = "open" THEN "closed" ELSE @]

\* get_delays, lines 22-23, up to the point where main awaits gather: gather
\* wraps every coroutine in a task; over no coroutine it returns a future
\* that is already done, and awaiting that one does not yield to the loop
GetDelays(us) ==
    /\ variant = "asyncio"
    /\ apc \in { "idle", "returned", "raised" }
    /\ served < MaxRequests
    /\ served' = served + 1
    /\ start' = now
    /\ urls' = us
    /\ tasks' = [ i \in 1..Len(us) |-> Task(us[i]) ]
    /\ gather' = IF Len(us) = 0 THEN "result" ELSE "pending"
    /\ suspended' = (Len(us) # 0)
    /\ apc' = IF Len(us) = 0 THEN "cleanup" ELSE "await"
    /\ delayOut' = None
    /\ UNCHANGED << variant, now, tvars >>

\* the event loop runs the ready tasks first in, first out
TaskReady(i) ==
    /\ tasks[i].st = "scheduled"
    /\ \A j \in 1..(i - 1) : tasks[j].st # "scheduled"

\* get, lines 30-31: the session is opened and the GET is sent
TaskStart(i) ==
    /\ variant = "asyncio"
    /\ apc = "await"
    /\ i \in 1..Len(tasks)
    /\ TaskReady(i)
    /\ \E d \in 0..MaxDelay :
         tasks' = [tasks EXCEPT ![i].st = "get", ![i].delay = d, ![i].due = now + d,
                                   ![i].session = "open"]
    /\ UNCHANGED << variant, now, tvars, apc, served, urls, start, gather,
                    suspended, delayOut >>

\* the network answers only after every ready task has had its first turn
TaskDue(i) ==
    /\ i \in 1..Len(tasks)
    /\ tasks[i].st = "get"
    /\ now >= tasks[i].due
    /\ \A j \in 1..Len(tasks) : tasks[j].st # "scheduled"

\* gather's done callback, return_exceptions = False: the first exception
\* completes the awaited future; a result needs every task to have returned
GatherAfter(ts) ==
    IF gather # "pending" THEN gather
    ELSE IF \E j \in 1..Len(ts) : ts[j].st = "Failed" THEN "exception"
    ELSE IF \A j \in 1..Len(ts) : ts[j].st = "Succeeded" THEN "result"
    ELSE "pending"

\* get, line 32: the body is read, both context managers exit
TaskSucceed(i) ==
    /\ variant = "asyncio"
    /\ apc = "await"
    /\ TaskDue(i)
    /\ LET ts == [tasks EXCEPT ![i] = ExitSession([@ EXCEPT !.st = "Succeeded"])]
       IN  tasks' = ts /\ gather' = GatherAfter(ts)
    /\ UNCHANGED << variant, now, tvars, apc, served, urls, start, suspended, delayOut >>

\* get raises (connection refused, reset, ...): the exception reaches gather
TaskFail(i) ==
    /\ variant = "asyncio"
    /\ apc = "await"
    /\ TaskDue(i)
    /\ LET ts == [tasks EXCEPT ![i] = ExitSession([@ EXCEPT !.st = "Failed"])]
       IN  tasks' = ts /\ gather' = GatherAfter(ts)
    /\ UNCHANGED << variant, now, tvars, apc, served, urls, start, suspended, delayOut >>

\* main, line 36: the await ends, main returns or raises, and the loop of
\* asyncio.run stops
MainResume ==
    /\ variant = "asyncio"
    /\ apc = "await"
    /\ gather # "pending"
    /\ apc' = "cleanup"
    /\ UNCHANGED << variant, now, tvars, served, urls, start, tasks, gather,
                    suspended, delayOut >>

\* asyncio.run's teardown: every task that is not done is cancelled and run
\* to its end
CancelAll(ts) ==
    [ i \in 1..Len(ts) |->
        IF ts[i].st \in Terminal THEN ts[i]
        ELSE ExitSession([ts[i] EXCEPT !.st = "Cancelled"]) ]

RunCleanup ==
    /\ variant = "asyncio"
    /\ apc = "cleanup"
    /\ tasks' = CancelAll(tasks)
    /\ apc' = "finish"
    /\ UNCHANGED << variant, now, tvars, served, urls, start, gather, suspended, delayOut >>

\* get_delays, lines 24-26, or the exception of main leaving get_delays
GetDelaysEnd ==
    /\ variant = "asyncio"
    /\ apc = "finish"
    /\ IF gather = "result"
       THEN apc' = "returned" /\ delayOut' = now - start
       ELSE apc' = "raised" /\ delayOut' = None
    /\ UNCHANGED << variant, now, tvars, served, urls, start, tasks, gather, suspended >>

(***************************************************************************)
(* The clock                                                               *)
(***************************************************************************)
ThreadedStepEnabled ==
    \/ \E r \in Reqs :
         \/ hpc[r] = "launch" /\ CanLaunch(r)
         \/ hpc[r] = "respond"
         \/ hpc[r] = "join" /\ ThreadTerminated(reqs[r][joined[r] + 1])
    \/ \E r \in Reqs : \E i \in 1..Len(reqs[r]) :
         reqs[r][i].st = "get" /\ now >= reqs[r][i].due

AsyncioStepEnabled ==
    \/ apc \in { "cleanup", "finish" }
    \/ /\ apc = "await"
       /\ \/ gather # "pending"
          \/ \E i \in 1..Len(tasks) : tasks[i].st = "scheduled" \/ TaskDue(i)

Waiting ==
    \/ \E r \in Reqs : \E i \in 1..Len(reqs[r]) :
         reqs[r][i].st = "get" /\ now < reqs[r][i].due
    \/ \E i \in 1..Len(tasks) : tasks[i].st = "get" /\ now < tasks[i].due

Tick ==
    /\ Waiting
    /\ ~ThreadedStepEnabled
    /\ ~AsyncioStepEnabled
    /\ now' = now + 1
    /\ UNCHANGED << variant, tvars, avars >>

(***************************************************************************)
(* Specification                                                           *)
(***************************************************************************)
Init ==
    /\ variant \in { "threaded", "asyncio" }
    /\ now = 0
    /\ results = << >>
    /\ nreq = 0
    /\ hpc = [ r \in Reqs |-> "idle" ]
    /\ req = [ r \in Reqs |-> RequestPath(<< >>, << >>) ]
    /\ t0 = [ r \in Reqs |-> None ]
    /\ reqs = [ r \in Reqs |-> << >> ]
    /\ joined = [ r \in Reqs |-> 0 ]
    /\ elapsed = [ r \in Reqs |-> None ]
    /\ apc = "idle"
    /\ served = 0
    /\ urls = << >>
    /\ start = None
    /\ tasks = << >>
    /\ gather = "pending"
    /\ suspended = FALSE
    /\ delayOut = None

Next ==
    \/ \E p \in Paths : Accept(p)
    \/ \E r \in Reqs : Launch(r)
    \/ \E r \in Reqs : \E i \in 1..(MaxArgLen + 1) : PerformRequest(r, i)
    \/ \E r \in Reqs : \E i \in 1..(MaxArgLen + 1) : FetchRaise(r, i)
    \/ \E r \in Reqs : \E i \in 1..(MaxArgLen + 1) : DecodeRaise(r, i)
    \/ \E r \in Reqs : Join(r)
    \/ \E r \in Reqs : Respond(r)
    \/ \E us \in UrlLists : GetDelays(us)
    \/ \E i \in 1..MaxUrls : TaskStart(i)
    \/ \E i \in 1..MaxUrls : TaskSucceed(i)
    \/ \E i \in 1..MaxUrls : TaskFail(i)
    \/ MainResume
    \/ RunCleanup
    \/ GetDelaysEnd
    \/ Tick

Spec == Init /\ [][Next]_vars

(***************************************************************************)
(* Properties                                                              *)
(***************************************************************************)
Units(r) == 1..Len(reqs[r])
Tasks == 1..Len(tasks)
Fanned(r) == req[r].path = SecsPath
Count(l, e) == Cardinality({ k \in 1..Len(l) : l[k] = e })
EntriesOf(r) == Cardinality({ k \in 1..Len(results) : results[k][1] = r })
AllThreadsFinished == \A r \in Reqs : \A i \in Units(r) : reqs[r][i].st \in Terminal

\* C1: barrier.  A handler thread past the join loop of do_GET has started
\* one thread per field and every one of them has terminated; when control
\* is back in get_delays every get coroutine of the run has finished.
C1_Barrier ==
    /\ \A r \in Reqs : hpc[r] \in { "respond", "done" } /\ Fanned(r) =>
         /\ Len(reqs[r]) = Len(secs_list(r))
         /\ \A i \in Units(r) : reqs[r][i].st \in Terminal
    /\ apc \in { "returned", "raised" } =>
         /\ Len(tasks) = Len(urls)
         /\ \A i \in Tasks : tasks[i].st \in Terminal

\* a handler that had to wait: past the join loop with two threads of
\* different delays
C1_Witness ==
    \E r \in Reqs :
        /\ hpc[r] = "respond"
        /\ Len(reqs[r]) = 2
        /\ reqs[r][1].delay = 2
        /\ reqs[r][2].delay = 1
        /\ now = t0[r] + 2

\* C2: count invariant.  When do_GET has joined all threads of a /secs/
\* request, the results list handed to the units holds exactly one entry
\* per target of that request.
C2_CountInvariant ==
    \A r \in Reqs : hpc[r] = "respond" /\ Fanned(r) =>
        Len(results) = Len(secs_list(r))

\* C3: failure isolation.  Every unit of a run that has ended ran to its own
\* Succeeded or Failed state; none was cancelled because a sibling failed.
C3_FailureIsolation ==
    /\ \A r \in Reqs : hpc[r] \in { "respond", "done" } =>
         \A i \in Units(r) : reqs[r][i].st \in { "Succeeded", "Failed" }
    /\ apc \in { "finish", "returned", "raised" } =>
         \A i \in Tasks : tasks[i].st \in { "Succeeded", "Failed" }

\* C4: the fan-in never raises because a unit failed: get_delays never ends
\* by an exception, and a handler that ended has reported an elapsed time.
C4_FanInNeverRaises ==
    /\ apc # "raised"
    /\ apc = "returned" => delayOut # None
    /\ \A r \in Reqs : hpc[r] = "done" => elapsed[r] # None

\* C5: when exactly one unit of a run failed and the others succeeded, the
\* run has one entry per unit in the collected outcomes, the failed one
\* included.
C5_OneFailureRepresented ==
    \A r \in Reqs :
        ( /\ hpc[r] = "respond"
          /\ Fanned(r)
          /\ Cardinality({ i \in Units(r) : reqs[r][i].st = "Failed" }) = 1
          /\ \A i \in Units(r) : reqs[r][i].st \in { "Succeeded", "Failed" } )
        => EntriesOf(r) = Len(reqs[r])

\* C6: once all perform_request threads have finished, every unit that
\* succeeded has exactly one entry in the shared results list.
C6_NoLostAppend ==
    AllThreadsFinished =>
        \A r \in Reqs : \A i \in Units(r) :
            reqs[r][i].st = "Succeeded" => Count(results, Payload(r, i)) = 1

\* two requests in flight together, four successful units, their appends
\* interleaved
C6_Witness ==
    /\ AllThreadsFinished
    /\ Len(results) = 4
    /\ results[1][1] = 1
    /\ results[2][1] = 2
    /\ results[3][1] = 1
    /\ results[4][1] = 2

\* C7: at the start of every process_req call the results collection handed
\* to the units is empty, whatever requests were served before (here: every
\* other request has been answered or has not arrived yet).
C7_FreshResults ==
    \A r \in Reqs :
        ( /\ hpc[r] = "launch"
          /\ reqs[r] = << >>
          /\ \A q \in Reqs \ { r } : hpc[q] \in { "idle", "done" } )
        => results = << >>

\* C8: overlap.  The coordinator waits only once every unit of the run is
\* started, and when no unit failed the elapsed time it measures is the
\* largest of the units' delays.
C8_ElapsedIsMax ==
    /\ \A r \in Reqs : hpc[r] = "join" => Len(reqs[r]) = Len(secs_list(r))
    /\ \A r \in Reqs :
         ( /\ hpc[r] = "done"
           /\ Fanned(r)
           /\ \A i \in Units(r) : reqs[r][i].st = "Succeeded" )
         => elapsed[r] = Max({ reqs[r][i].delay : i \in Units(r) })
    /\ apc = "await" => Len(tasks) = Len(urls)
    /\ apc = "returned" => delayOut = Max({ tasks[i].delay : i \in Tasks })

\* a finished run of two successful units with delays 1 and 2: the maximum
\* is 2, the sum 3
C8_Witness ==
    \E r \in Reqs :
        /\ hpc[r] = "done"
        /\ Len(reqs[r]) = 2
        /\ reqs[r][1].delay = 1 /\ reqs[r][1].st = "Succeeded"
        /\ reqs[r][2].delay = 2 /\ reqs[r][2].st = "Succeeded"
        /\ elapsed[r] = 2

\* C9: a run with zero targets launches no unit, returns no outcome and
\* completes at once: main over an empty list, and a /secs/ request whose
\* last path segment is empty.
C9_EmptyRun ==
    /\ \A r \in Reqs :
         hpc[r] \in { "join", "respond", "done" } /\ Fanned(r) /\ req[r].args = << >>
         => reqs[r] = << >>
    /\ apc # "idle" /\ urls = << >> =>
         /\ tasks = << >>
         /\ ~suspended
         /\ apc = "returned" => delayOut = 0

\* C10: overall timeout.  Whatever timeout T shorter than some unit's delay
\* the caller supplies, the run is over by T.
C10_OverallTimeout ==
    \A T \in 0..MaxDelay :
        /\ \A r \in Reqs :
             hpc[r] = "done" /\ (\E i \in Units(r) : reqs[r][i].delay > T)
             => elapsed[r] <= T
        /\ apc = "returned" /\ (\E i \in Tasks : tasks[i].delay > T)
             => delayOut <= T

\* number of comma-separated fields of a path segment
Fields(a) == Cardinality({ k \in 1..Len(a) : a[k] = "," }) + 1

\* C11: each run launches exactly one unit per target and none twice.  Once
\* process_req has returned, a /secs/ request has one thread per
\* comma-separated field of its last segment, the i-th thread fetching the
\* url of the i-th field; the join loop passes each thread once, in order;
\* main makes one task per url, the i-th for the i-th url.
C11_OneUnitPerTarget ==
    /\ \A r \in Reqs :
         /\ Len(reqs[r]) <= (IF Fanned(r) THEN Fields(req[r].args) ELSE 0)
         /\ joined[r] <= Len(reqs[r])
         /\ \A i \in Units(r) : reqs[r][i].url = Url(Split(req[r].args, ",")[i])
         /\ hpc[r] \in { "join", "respond", "done" } /\ Fanned(r) =>
              Len(reqs[r]) = Fields(req[r].args)
         /\ hpc[r] \in { "respond", "done" } => joined[r] = Len(reqs[r])
    /\ apc # "idle" =>
         /\ Len(tasks) = Len(urls)
         /\ \A i \in Tasks : tasks[i].url = urls[i]

\* a two-field request whose two threads have both been joined
C11_Witness ==
    \E r \in Reqs :
        /\ hpc[r] = "done"
        /\ req[r].args = << "," >>
        /\ Len(reqs[r]) = 2
        /\ joined[r] = 2

\* units of a run that have not reached a terminal state
PendingCount(r) == Cardinality({ i \in Units(r) : reqs[r][i].st \notin Terminal })
PendingTasks == Cardinality({ i \in Tasks : tasks[i].st \notin Terminal })

\* C12: the coordinator leaves Running only when its pending count is zero:
\* a handler thread is past the join loop, and main is past its await, only
\* when no unit of the run is still pending.
C12_LeavesRunningAtZero ==
    /\ \A r \in Reqs : hpc[r] \in { "respond", "done" } => PendingCount(r) = 0
    /\ apc = "cleanup" => PendingTasks = 0

\* the state of a unit of work as the design names it
UnitState(st) == IF st \in { "scheduled", "get" } THEN "Pending" ELSE st

UnitStep(a, b) ==
    UnitState(a) # UnitState(b) =>
        UnitState(a) = "Pending" /\ UnitState(b) \in { "Succeeded", "Failed" }

\* C13: unit state machine.  In every step, a unit (a thread of a request,
\* a task of the current run) either keeps its state or moves from Pending
\* to Succeeded or from Pending to Failed; a Pending unit has its one GET in
\* flight or about to be sent, and nothing leaves a terminal state.
C13_UnitStateMachine ==
    [][ /\ \A r \in Reqs : \A i \in Units(r) : UnitStep(reqs[r][i].st, reqs'[r][i].st)
        /\ served' = served =>
             \A i \in Tasks : UnitStep(tasks[i].st, tasks'[i].st) ]_vars

\* the collection process_req hands to the units of request r: called
\* without a results argument, it passes on its default, one list object
\* for every request
ResultsOf(r) == results

Handling(r) == hpc[r] \in { "launch", "join", "respond" }

\* C14: outcome ownership.  While two /secs/ requests are handled at the
\* same time, no outcome produced by a unit of one of them is in the
\* collection of the other's run.
C14_OutcomeOwnership ==
    \A a \in Reqs : \A b \in Reqs \ { a } :
        Handling(a) /\ Handling(b) =>
            \A k \in 1..Len(ResultsOf(b)) : ResultsOf(b)[k][1] # a

\* C15: resource release.  A get that has ended, however it ended, has
\* closed the session it opened; once get_delays has returned or raised, no
\* session opened by the run is still open.
C15_SessionsReleased ==
    /\ \A i \in Tasks : tasks[i].st \in Terminal => tasks[i].session # "open"
    /\ apc \in { "returned", "raised" } =>
         \A i \in Tasks : tasks[i].session = "closed"

\* a run that raised: one get failed, its sibling was cancelled in
\* mid-fetch, and both sessions are closed
C15_Witness ==
    /\ apc = "raised"
    /\ Len(tasks) = 2
    /\ tasks[1].st = "Failed" /\ tasks[1].session = "closed"
    /\ tasks[2].st = "Cancelled" /\ tasks[2].session = "closed"

\* C16: frame condition on failure.  A step in which a perform_request
\* fails leaves the results list, every other unit and every handler as
\* they were; and a failed thread counts as terminated for the join loop,
\* which therefore passes it like any other.
C16_FailureFrame ==
    /\ [](\A r \in Reqs : \A i \in Units(r) :
            reqs[r][i].st = "Failed" => ThreadTerminated(reqs[r][i]))
    /\ [][ \A r \in Reqs : \A i \in Units(r) :
             reqs[r][i].st = "get" /\ reqs'[r][i].st = "Failed" =>
                 /\ results' = results
                 /\ hpc' = hpc
                 /\ joined' = joined
                 /\ \A q \in Reqs : \A j \in Units(q) :
                      << q, j >> # << r, i >> => reqs'[q][j] = reqs[q][j] ]_vars

\* a request answered although its first unit failed: the handler joined
\* both threads and the entry of the second unit is in the list
C16_Witness ==
    \E r \in Reqs :
        /\ hpc[r] = "done"
        /\ Len(reqs[r]) = 2
        /\ reqs[r][1].st = "Failed"
        /\ reqs[r][2].st = "Succeeded"
        /\ joined[r] = 2
        /\ results = << Payload(r, 2) >>

Succeeded == { << r, i >> \in Reqs \X (1..(MaxArgLen + 1)) :
                   i \in Units(r) /\ reqs[r][i].st = "Succeeded" }
Launched == { << r, i >> \in Reqs \X (1..(MaxArgLen + 1)) : i \in Units(r) }

\* C17: shared-list invariant.  Over the life of the server process the
\* length of the results list never decreases; in every state it is the
\* number of perform_request invocations that have completed successfully
\* since the process started, and at most the number of units launched.
C17_SharedListLength ==
    /\ [](/\ Len(results) = Cardinality(Succeeded)
          /\ Len(results) <= Cardinality(Launched))
    /\ [][Len(results') >= Len(results)]_vars

\* the list spans requests: a second request is being handled while the
\* list still holds the entries of the first, answered one
C17_Witness ==
    /\ hpc[1] = "done"
    /\ hpc[2] = "join"
    /\ Len(results) = 3
    /\ results[1][1] = 1
    /\ results[3][1] = 2
    /\ Cardinality(Launched) = 4

\* the entry of unit i of request r stands before that of unit j
Before(r, i, j) ==
    \E k \in 1..Len(results) : \E m \in (k + 1)..Len(results) :
        results[k] = Payload(r, i) /\ results[m] = Payload(r, j)

\* C18: outcome order.  For two units of one run that both succeeded, the
\* entry of the one stands before the entry of the other exactly when its
\* append happened first, whichever of the two was launched first.
C18_CompletionOrder ==
    \A r \in Reqs : \A i \in Units(r) : \A j \in Units(r) \ { i } :
        reqs[r][i].st = "Succeeded" /\ reqs[r][j].st = "Succeeded" =>
            (Before(r, i, j) <=> reqs[r][i].seq < reqs[r][j].seq)

\* the unit launched second answered first: its entry stands before the
\* entry of the unit launched first
C18_Witness ==
    \E r \in Reqs :
        /\ Len(reqs[r]) = 2
        /\ reqs[r][1].delay = 2 /\ reqs[r][1].st = "Succeeded"
        /\ reqs[r][2].delay = 1 /\ reqs[r][2].st = "Succeeded"
        /\ Before(r, 2, 1)

====
